---- MODULE Spec2Model ----
(***************************************************************************)
(* Model of backend/src/auth/auth.py: the requires_auth guard and the      *)
(* three functions it composes (get_token_auth_header, verify_decode_jwt,  *)
(* check_permissions).                                                     *)
(*                                                                         *)
(* Strings are sequences of atoms.  An Authorization header value is a     *)
(* sequence over HeaderAtoms, where " " is a whitespace character and the  *)
(* other atoms are non-blank substrings; "<jwt>" stands for the compact    *)
(* serialisation of the request's token, whose content is `tok`.           *)
(***************************************************************************)
EXTENDS Integers, Sequences, FiniteSets, TLC

VARIABLES
    pc,          \* position of the wrapper: idle, get_token, verify, check, call, in_f, done
    header,      \* request.headers: [present, value]
    tok,         \* content of the JWT the atom "<jwt>" serialises
    permission,  \* the permission the guard was built with
    args,        \* *args, **kwargs of this invocation
    jwt,         \* wrapper local `jwt` (the extracted token string)
    lib,         \* the library calls made during this invocation, in order
    log,         \* the functions the wrapper has called in this invocation, in order
    jwks,        \* the key set document fetched by the wrapper's verify_decode_jwt
    clock,       \* the time jwt.decode read in the wrapper's verify_decode_jwt, if called
    vres,        \* outcome of verify_decode_jwt(jwt) inside the wrapper's try
    payload,     \* wrapper local `payload`
    checked,     \* check_permissions returned True in this invocation
    calls,       \* number of times f was invoked in this invocation
    fcall,       \* what f received and returned: [token, args, result]
    rederived,   \* outcome of f verifying its token argument again
    response     \* how the wrapper ended: return value or raised exception

vars == <<pc, header, tok, permission, args, jwt, lib, log, jwks, clock, vres,
          payload, checked, calls, fcall, rederived, response>>

----------------------------------------------------------------------------
(* Configuration, auth.py lines 8-10 *)
AUTH0_DOMAIN == "nadia-fsdn.us.auth0.com"
ALGORITHMS == {"RS256"}
API_AUDIENCE == "drinks"
\* 'https://' + AUTH0_DOMAIN + '/' (line 121); strings are atoms here, so the
\* concatenation is written as the sequence of its three pieces.
Issuer == <<"https://", AUTH0_DOMAIN, "/">>

----------------------------------------------------------------------------
(* Bounds and input domains *)
MaxHeaderLen == 3
MaxKeys == 2

HeaderAtoms == {" ", "Bearer", "bEARER", "Basic", "<jwt>"}
Kids == {"k1", "k2"}
NoKid == "<no kid>"
NoSig == "<no sig>"
\* Only the order of exp and the time of verification matters: tokens expire
\* at ExpValues, verification happens at a time of Times.
ExpValues == {1}
Times == {0, 1, 2}
NoTime == -1
PermissionLists == {<<>>, <<"">>, <<"post:drink">>}
RequiredPermissions == {"", "post:drink"}
ArgValues == {<<>>, <<"id7">>}
Results == {"r1", "r2"}

None == [kind |-> "none"]

\* Sequences over S of length at most n
RECURSIVE SeqUpTo(_, _)
SeqUpTo(S, n) ==
    IF n = 0 THEN {<<>>}
    ELSE LET shorter == SeqUpTo(S, n - 1)
         IN  shorter \cup {Append(s, x) : s \in {t \in shorter : Len(t) = n - 1}, x \in S}

HeaderValues == SeqUpTo(HeaderAtoms, MaxHeaderLen)

Range(s) == {s[i] : i \in 1..Len(s)}

\* Claims of a token's body.
ClaimSets ==
    [exp : ExpValues, aud : {API_AUDIENCE, "other"},
     iss : {Issuer, <<"https://", "evil.example", "/">>},
     hasPermissions : {TRUE}, permissions : PermissionLists]
    \cup
    [exp : ExpValues, aud : {API_AUDIENCE, "other"},
     iss : {Issuer, <<"https://", "evil.example", "/">>},
     hasPermissions : {FALSE}, permissions : {<<>>}]

\* Token contents.  form: "ok", or which part of the compact serialisation is
\* broken.  sig names the key whose private half produced the signature.
GarbageToken ==
    [form |-> "bad_header", kid |-> NoKid, alg |-> "RS256", sig |-> NoSig,
     claims |-> [exp |-> 1, aud |-> "other", iss |-> Issuer,
                 hasPermissions |-> FALSE, permissions |-> <<>>]]

BrokenBody ==
    [exp |-> 1, aud |-> "other", iss |-> Issuer,
     hasPermissions |-> FALSE, permissions |-> <<>>]

Tokens ==
    {GarbageToken}
    \cup [form : {"bad_body", "bad_encoding"}, kid : Kids \cup {NoKid},
          alg : {"RS256"}, sig : {NoSig}, claims : {BrokenBody}]
    \cup [form : {"ok"}, kid : Kids \cup {NoKid}, alg : {"RS256", "HS256"},
          sig : {"k1", NoSig}, claims : ClaimSets]

\* Entries of the 'keys' array of the fetched document.  hasKid / hasMaterial
\* say whether the JWK object carries 'kid' and the fields kty, use, n, e.
KeyEntries ==
    [kid : Kids, hasKid : {TRUE}, hasMaterial : BOOLEAN]
    \cup {[kid |-> NoKid, hasKid |-> FALSE, hasMaterial |-> TRUE]}

\* Key identifiers are unique within a published key set.
UniqueKids(keys) ==
    \A i, j \in 1..Len(keys) :
        (i # j /\ keys[i].hasKid /\ keys[j].hasKid) => keys[i].kid # keys[j].kid

KeyLists == {ks \in SeqUpTo(KeyEntries, MaxKeys) : UniqueKids(ks)}

\* What urlopen(...).read() + json.loads can give.
FetchResults ==
    {[status |-> "unreachable", hasKeys |-> FALSE, keys |-> <<>>],
     [status |-> "ok", hasKeys |-> FALSE, keys |-> <<>>]}
    \cup [status : {"ok"}, hasKeys : {TRUE}, keys : KeyLists]

NoFetch == [status |-> "none", hasKeys |-> FALSE, keys |-> <<>>]

----------------------------------------------------------------------------
(* Outcomes of a call *)
Return(v) == [kind |-> "return", value |-> v]
Abort(status) == [kind |-> "abort", status |-> status]
AuthError(code, description, status) ==
    [kind |-> "AuthError", code |-> code, description |-> description,
     status |-> status]
Fault(exc) == [kind |-> "fault", exc |-> exc]

----------------------------------------------------------------------------
(* str.split() and str.lower() on atom strings *)
RECURSIVE SplitAcc(_, _, _)
SplitAcc(s, parts, cur) ==
    IF s = <<>>
    THEN IF cur = <<>> THEN parts ELSE Append(parts, cur)
    ELSE IF Head(s) = " "
         THEN SplitAcc(Tail(s), IF cur = <<>> THEN parts ELSE Append(parts, cur), <<>>)
         ELSE SplitAcc(Tail(s), parts, Append(cur, Head(s)))

\* auth_header.split(): the maximal runs of non-blank characters
Split(s) == SplitAcc(s, <<>>, <<>>)

LowerAtom(a) ==
    CASE a = "Bearer" -> "bearer"
      [] a = "bEARER" -> "bearer"
      [] a = "Basic"  -> "basic"
      [] OTHER        -> a

Lower(part) == [i \in 1..Len(part) |-> LowerAtom(part[i])]

----------------------------------------------------------------------------
(* get_token_auth_header, lines 33-50 *)

\* Variant: a missing header yields no token instead of abort(401).
get_token_auth_header_missing_passes(h) ==
    IF ~h.present
    THEN Return(<<>>)
    ELSE LET header_parts == Split(h.value)
         IN  IF Len(header_parts) = 0
             THEN Fault("IndexError")
             ELSE IF Lower(header_parts[1]) # <<"bearer">>
             THEN AuthError("invalid_header",
                            "Authorization header must start with Bearer", 401)
             ELSE IF Len(header_parts) # 2
             THEN AuthError("invalid_header", "Token not found", 401)
             ELSE Return(header_parts[2])

get_token_auth_header(h) ==
    IF ~h.present
    THEN Abort(401)
    ELSE LET header_parts == Split(h.value)
         IN  IF Len(header_parts) = 0
             THEN Fault("IndexError")          \* header_parts[0] on an empty list
             ELSE IF Lower(header_parts[1]) # <<"bearer">>
             THEN AuthError("invalid_header",
                            "Authorization header must start with Bearer", 401)
             ELSE IF Len(header_parts) # 2
             THEN AuthError("invalid_header", "Token not found", 401)
             ELSE Return(header_parts[2])

----------------------------------------------------------------------------
(* check_permissions, lines 65-70 *)

\* Variant: only the presence of the field is checked.
check_permissions_field_only(perm, pl) ==
    IF ~pl.hasPermissions THEN Abort(400) ELSE Return(TRUE)

\* Variant: an empty required permission means no permission is required.
check_permissions_empty_skips(perm, pl) ==
    IF ~pl.hasPermissions
    THEN Abort(400)
    ELSE IF perm # "" /\ perm \notin Range(pl.permissions)
    THEN Abort(401)
    ELSE Return(TRUE)

check_permissions(perm, pl) ==
    IF ~pl.hasPermissions
    THEN Abort(400)
    ELSE IF perm \notin Range(pl.permissions)
    THEN Abort(401)
    ELSE Return(TRUE)

----------------------------------------------------------------------------
(* The jose library as verify_decode_jwt uses it *)

\* The content a token string deserialises to: only the serialisation of a
\* JWT is one; every other string has no readable header.
Decode(token, content) ==
    IF token = <<"<jwt>">> THEN content ELSE GarbageToken

\* jwt.get_unverified_header(token), line 92
get_unverified_header(d) ==
    IF d.form = "bad_header"
    THEN Fault("JWTError")
    ELSE Return([hasKid |-> d.kid # NoKid, kid |-> d.kid, alg |-> d.alg])

\* jwt.decode(token, rsa_key, algorithms, audience, issuer), lines 116-122:
\* structure and signature first, then exp, then aud and iss.
jwt_decode(d, rsa_key, algorithms, audience, issuer, now) ==
    IF d.form # "ok" THEN Fault("JWTError")
    ELSE IF d.alg \notin algorithms THEN Fault("JWTError")
    ELSE IF d.sig # rsa_key.kid THEN Fault("JWTError")
    ELSE IF d.claims.exp < now THEN Fault("ExpiredSignatureError")
    ELSE IF d.claims.aud # audience THEN Fault("JWTClaimsError")
    ELSE IF d.claims.iss # issuer THEN Fault("JWTClaimsError")
    ELSE Return(d.claims)

----------------------------------------------------------------------------
(* verify_decode_jwt, lines 86-145 *)
EmptyKey == [found |-> FALSE, kid |-> NoKid]

\* Variant: the comparison of kids is left out, the last key is taken.
RECURSIVE ChooseKey_any(_, _, _)
ChooseKey_any(keys, kid, rsa_key) ==
    IF keys = <<>> THEN Return(rsa_key)
    ELSE LET key == Head(keys)
         IN  IF ~key.hasKid \/ ~key.hasMaterial THEN Fault("KeyError")
             ELSE ChooseKey_any(Tail(keys), kid, [found |-> TRUE, kid |-> key.kid])

\* for key in jwks['keys'], lines 102-110: no break, the last match stays
RECURSIVE ChooseKey(_, _, _)
ChooseKey(keys, kid, rsa_key) ==
    IF keys = <<>> THEN Return(rsa_key)
    ELSE LET key == Head(keys)
         IN  IF ~key.hasKid THEN Fault("KeyError")
             ELSE IF key.kid = kid
             THEN IF ~key.hasMaterial THEN Fault("KeyError")
                  ELSE ChooseKey(Tail(keys), kid, [found |-> TRUE, kid |-> key.kid])
             ELSE ChooseKey(Tail(keys), kid, rsa_key)

\* Variant: one handler for every failure of jwt.decode.
DecodeWithKey_generic(d, rsa_key, now) ==
    LET r == jwt_decode(d, rsa_key, ALGORITHMS, API_AUDIENCE, Issuer, now)
    IN  IF r.kind = "return" THEN r
        ELSE AuthError("invalid_header",
                "Unable to parse authentication token.", 400)

\* Variant: the returned claims carry the time of verification as exp.
DecodeWithKey_stamped(d, rsa_key, now) ==
    LET r == jwt_decode(d, rsa_key, ALGORITHMS, API_AUDIENCE, Issuer, now)
    IN  IF r.kind = "return" THEN Return([r.value EXCEPT !.exp = now])
        ELSE IF r.exc = "ExpiredSignatureError"
        THEN AuthError("token_expired", "Token expired.", 401)
        ELSE IF r.exc = "JWTClaimsError"
        THEN AuthError("invalid_claims",
                "Incorrect claims. Please, check the audience and issuer.", 401)
        ELSE AuthError("invalid_header",
                "Unable to parse authentication token.", 400)

\* try: jwt.decode(...) except ..., lines 114-141
DecodeWithKey(d, rsa_key, now) ==
    LET r == jwt_decode(d, rsa_key, ALGORITHMS, API_AUDIENCE, Issuer, now)
    IN  IF r.kind = "return" THEN r
        ELSE IF r.exc = "ExpiredSignatureError"
        THEN AuthError("token_expired", "Token expired.", 401)
        ELSE IF r.exc = "JWTClaimsError"
        THEN AuthError("invalid_claims",
                "Incorrect claims. Please, check the audience and issuer.", 401)
        ELSE AuthError("invalid_header",
                "Unable to parse authentication token.", 400)

\* The outcome of a call together with the library calls it made, in order.
Out(r, made) == [out |-> r, lib |-> made]

\* token: the token string; content: what "<jwt>" serialises; fetch: what the
\* key-set endpoint answers to this call; now: the time of this call.
verify_decode_jwt(token, content, fetch, now) ==
    IF fetch.status # "ok" THEN Out(Fault("URLError"), <<"urlopen">>)
    ELSE LET d == Decode(token, content)
             unverified_header == get_unverified_header(d)
             read == <<"urlopen", "get_unverified_header">>
         IN  IF unverified_header.kind # "return" THEN Out(unverified_header, read)
             ELSE IF ~unverified_header.value.hasKid
             THEN Out(AuthError("invalid_header", "Authorization malformed.", 401),
                      read)
             ELSE IF ~fetch.hasKeys THEN Out(Fault("KeyError"), read)
             ELSE LET chosen == ChooseKey(fetch.keys, unverified_header.value.kid,
                                          EmptyKey)
                  IN  IF chosen.kind # "return" THEN Out(chosen, read)
                      ELSE IF chosen.value.found
                      THEN Out(DecodeWithKey(d, chosen.value, now),
                               Append(read, "decode"))
                      ELSE Out(AuthError("invalid_header",
                                   "Unable to find the appropriate key.", 400), read)

----------------------------------------------------------------------------
(* requires_auth, lines 160-177 *)

\* Variant: the failure of verify_decode_jwt is raised again as it is.
TryVerify_reraise(vr) == vr

\* try: payload = verify_decode_jwt(jwt) / except: abort(401), lines 165-169
TryVerify(vr) == IF vr.kind = "return" THEN vr ELSE Abort(401)

NoHeader == [present |-> FALSE, value |-> <<>>]
NoPayload ==
    [exp |-> 0, aud |-> "", iss |-> <<>>, hasPermissions |-> FALSE,
     permissions |-> <<>>]
NoCall == [token |-> <<>>, args |-> <<>>, result |-> ""]

Init ==
    /\ pc = "idle"
    /\ header = NoHeader
    /\ tok = GarbageToken
    /\ permission = ""
    /\ args = <<>>
    /\ jwt = <<>>
    /\ lib = <<>>
    /\ log = <<>>
    /\ jwks = NoFetch
    /\ clock = NoTime
    /\ vres = None
    /\ payload = NoPayload
    /\ checked = FALSE
    /\ calls = 0
    /\ fcall = NoCall
    /\ rederived = None
    /\ response = None

\* A request reaches an endpoint wrapped by requires_auth(p).  tok is the
\* content of the JWT the header carries as one of its words, if it has one.
Request ==
    /\ pc = "idle"
    /\ \E h \in {NoHeader} \cup [present : {TRUE}, value : HeaderValues] :
       \E t \in Tokens :
         /\ (<<"<jwt>">> \notin Range(Split(h.value))) => t = GarbageToken
         /\ header' = h
         /\ tok' = t
    /\ permission' \in RequiredPermissions
    /\ args' \in ArgValues
    /\ pc' = "get_token"
    /\ UNCHANGED <<jwt, lib, log, jwks, clock, vres, payload, checked, calls,
                   fcall, rederived, response>>

\* jwt = get_token_auth_header(), line 164
GetToken ==
    /\ pc = "get_token"
    /\ LET r == get_token_auth_header(header)
       IN  IF r.kind = "return"
           THEN /\ jwt' = r.value
                /\ pc' = "verify"
                /\ UNCHANGED response
           ELSE /\ response' = r
                /\ pc' = "done"
                /\ UNCHANGED jwt
    /\ log' = Append(log, "get_token_auth_header")
    /\ UNCHANGED <<header, tok, permission, args, lib, jwks, clock, vres,
                   payload, checked, calls, fcall, rederived>>

\* lines 165-169
Verify ==
    /\ pc = "verify"
    /\ \E fetch \in FetchResults, now \in Times :
         LET v  == verify_decode_jwt(jwt, tok, fetch, now)
             r  == TryVerify(v.out)
         IN  /\ lib' = lib \o v.lib
             /\ jwks' = fetch
             /\ clock' = IF "decode" \in Range(v.lib) THEN now ELSE NoTime
             /\ vres' = v.out
             /\ IF r.kind = "return"
                THEN /\ payload' = r.value
                     /\ pc' = "check"
                     /\ UNCHANGED response
                ELSE /\ response' = r
                     /\ pc' = "done"
                     /\ UNCHANGED payload
    /\ log' = Append(log, "verify_decode_jwt")
    /\ UNCHANGED <<header, tok, permission, args, jwt, checked, calls, fcall,
                   rederived>>

\* check_permissions(permission, payload), line 172
Check ==
    /\ pc = "check"
    /\ LET r == check_permissions(permission, payload)
       IN  IF r.kind = "return"
           THEN /\ checked' = TRUE
                /\ pc' = "call"
                /\ UNCHANGED response
           ELSE /\ response' = r
                /\ pc' = "done"
                /\ UNCHANGED checked
    /\ log' = Append(log, "check_permissions")
    /\ UNCHANGED <<header, tok, permission, args, jwt, lib, jwks, clock, vres,
                   payload, calls, fcall, rederived>>

\* Variant: f(jwt), the caller's arguments are dropped.
CallArguments_token_only(token, a) ==
    [token |-> token, args |-> <<>>, result |-> ""]

\* The arguments of f(jwt, *args, **kwargs), line 174
CallArguments(token, a) == [token |-> token, args |-> a, result |-> ""]

\* f(jwt, *args, **kwargs) is entered, line 174
Invoke ==
    /\ pc = "call"
    /\ calls' = calls + 1
    /\ fcall' = CallArguments(jwt, args)
    /\ pc' = "in_f"
    /\ log' = Append(log, "f")
    /\ UNCHANGED <<header, tok, permission, args, jwt, lib, jwks, clock, vres,
                   payload, checked, rederived, response>>

\* The protected operation derives the claims of its token argument again.
Rederive ==
    /\ pc = "in_f"
    /\ rederived = None
    /\ \E fetch \in FetchResults, now \in Times :
         LET v == verify_decode_jwt(fcall.token, tok, fetch, now)
         IN  /\ rederived' = v.out
             /\ lib' = lib \o v.lib
    /\ UNCHANGED <<pc, header, tok, permission, args, jwt, log, jwks, clock, vres,
                   payload, checked, calls, fcall, response>>

\* The value the wrapper returns for f's result, line 174
WrapperResult(r) == Return(r)

\* f returns and the wrapper returns its result, line 174
FReturn ==
    /\ pc = "in_f"
    /\ \E r \in Results :
         /\ fcall' = [fcall EXCEPT !.result = r]
         /\ response' = WrapperResult(r)
    /\ pc' = "done"
    /\ UNCHANGED <<header, tok, permission, args, jwt, lib, log, jwks, clock, vres,
                   payload, checked, calls, rederived>>

\* The invocation is over; the next request starts from nothing.
Finish ==
    /\ pc = "done"
    /\ pc' = "idle"
    /\ header' = NoHeader
    /\ tok' = GarbageToken
    /\ permission' = ""
    /\ args' = <<>>
    /\ jwt' = <<>>
    /\ lib' = <<>>
    /\ log' = <<>>
    /\ jwks' = NoFetch
    /\ clock' = NoTime
    /\ vres' = None
    /\ payload' = NoPayload
    /\ checked' = FALSE
    /\ calls' = 0
    /\ fcall' = NoCall
    /\ rederived' = None
    /\ response' = None

Next ==
    \/ Request
    \/ GetToken
    \/ Verify
    \/ Check
    \/ Invoke
    \/ Rederive
    \/ FReturn
    \/ Finish

Spec == Init /\ [][Next]_vars

----------------------------------------------------------------------------
(* Vocabulary of the properties *)

Ran(fn) == fn \in Range(log)
Parts == Split(header.value)
\* The content of the token string the wrapper extracted
Content == Decode(jwt, tok)
Failed(r) == r.kind \in {"abort", "AuthError", "fault"}

\* The fetched document is a key set as the provider publishes it: a 'keys'
\* array of JWK objects that carry kid, kty, use, n, e.
KeySetFetched(fetch) ==
    /\ fetch.status = "ok"
    /\ fetch.hasKeys
    /\ \A i \in 1..Len(fetch.keys) : fetch.keys[i].hasKid /\ fetch.keys[i].hasMaterial

KidInKeySet(fetch, kid) ==
    \E i \in 1..Len(fetch.keys) : fetch.keys[i].hasKid /\ fetch.keys[i].kid = kid

\* Signed, with an allowed algorithm, by the key its header names
ValidlySigned(d) == d.form = "ok" /\ d.alg \in ALGORITHMS /\ d.sig = d.kid

IsAuthError(r, code, status) ==
    r.kind = "AuthError" /\ r.code = code /\ r.status = status

----------------------------------------------------------------------------
\* C1: the protected operation f is invoked only after, in this invocation and
\* in this order, get_token_auth_header returned the token, verify_decode_jwt
\* returned the claims of that token (kid among the keys fetched in this call,
\* signature, expiry, audience and issuer passed) and check_permissions found
\* the required permission in them; once a stage has failed f is not invoked.
C1_InvokedOnlyAfterAllStagesPassed ==
    /\ calls > 0 =>
         /\ log = <<"get_token_auth_header", "verify_decode_jwt",
                    "check_permissions", "f">>
         /\ header.present /\ Len(Parts) = 2 /\ jwt = Parts[2]
         /\ fcall.token = jwt
         /\ vres.kind = "return" /\ payload = vres.value
         /\ jwks.status = "ok" /\ KidInKeySet(jwks, Content.kid)
         /\ ValidlySigned(Content)
         /\ Content.claims.exp >= clock
         /\ Content.claims.aud = API_AUDIENCE
         /\ Content.claims.iss = Issuer
         /\ payload = Content.claims
         /\ checked
         /\ payload.hasPermissions /\ permission \in Range(payload.permissions)
    /\ Failed(response) => calls = 0

C1_Witness == pc = "in_f" /\ calls = 1

\* C2: a request without Authorization header is rejected with 401 by the
\* first step; no key-set fetch is made and f is not invoked in that invocation.
C2_NoHeaderRejectedBeforeFetch ==
    (pc # "idle" /\ ~header.present) =>
        /\ "urlopen" \notin Range(lib)
        /\ calls = 0
        /\ pc \in {"get_token", "done"}
        /\ pc = "done" => (response = Abort(401) /\ log = <<"get_token_auth_header">>)

C2_Witness == pc = "done" /\ ~header.present /\ response = Abort(401)

\* C3: for every header value that is present, get_token_auth_header raises
\* AuthError(invalid_header, 401) whenever the value does not split into
\* exactly two parts (zero parts included) or its first part is not 'bearer'
\* in any letter case.
C3_MalformedHeaderIsAuthError ==
    (/\ header.present
     /\ Ran("get_token_auth_header")
     /\ \/ Len(Parts) # 2
        \/ Lower(Parts[1]) # <<"bearer">>)
    => IsAuthError(response, "invalid_header", 401)

\* C4: once the token is extracted, every failure of verify_decode_jwt (an
\* AuthError with 400, one with 401, or any other exception) ends the request
\* with abort(401); check_permissions and f are not reached.
C4_VerifyFailureAborts401 ==
    (Ran("verify_decode_jwt") /\ vres.kind # "return") =>
        /\ pc = "done"
        /\ response = Abort(401)
        /\ log = <<"get_token_auth_header", "verify_decode_jwt">>
        /\ ~checked
        /\ calls = 0

C4_Witness ==
    /\ pc = "done"
    /\ IsAuthError(vres, "invalid_header", 400)
    /\ response = Abort(401)

\* C5: check_permissions aborts with 400 exactly when the claims have no
\* permissions field, aborts with 401 exactly when the field is there (empty
\* or not) and the required string is no member of it, and returns True
\* otherwise; the required permission '' is treated like any other string.
C5_PermissionCheck ==
    Ran("check_permissions") =>
        /\ vres.kind = "return" /\ payload = vres.value
        /\ ~payload.hasPermissions =>
               (pc = "done" /\ response = Abort(400) /\ ~checked /\ calls = 0)
        /\ (payload.hasPermissions /\ permission \notin Range(payload.permissions)) =>
               (pc = "done" /\ response = Abort(401) /\ ~checked /\ calls = 0)
        /\ (payload.hasPermissions /\ permission \in Range(payload.permissions)) =>
               (checked /\ ~Failed(response))

C5_Witness ==
    /\ Ran("check_permissions")
    /\ permission = ""
    /\ payload.hasPermissions
    /\ payload.permissions = <<"post:drink">>
    /\ response = Abort(401)

\* C6: a request with header 'Bearer <token>', the token validly signed by the
\* key of the fetched key set its kid names, not expired, with the configured
\* audience and issuer and with the required permission among its
\* permissions, ends with f invoked exactly once with that token string and
\* the caller's arguments, and with f's result returned.
C6_Premise ==
    /\ header.present /\ Len(Parts) = 2 /\ Lower(Parts[1]) = <<"bearer">>
    /\ Ran("verify_decode_jwt")
    /\ KeySetFetched(jwks)
    /\ LET d == Decode(Parts[2], tok)
       IN  /\ ValidlySigned(d)
           /\ KidInKeySet(jwks, d.kid)
           /\ d.claims.exp >= clock
           /\ d.claims.aud = API_AUDIENCE
           /\ d.claims.iss = Issuer
           /\ d.claims.hasPermissions
           /\ permission \in Range(d.claims.permissions)

C7_MalformedTokenIsAuthError ==
    (/\ Ran("verify_decode_jwt")
     /\ KeySetFetched(jwks)
     /\ \/ Content.form = "bad_header"
        \/ /\ KidInKeySet(jwks, Content.kid)
           /\ \/ Content.form \in {"bad_body", "bad_encoding"}
              \/ Content.sig # Content.kid)
    => IsAuthError(vres, "invalid_header", 400)

\* C8: a token whose header carries a kid that no key of the fetched key set
\* has makes verify_decode_jwt raise AuthError(invalid_header, 400, 'Unable to
\* find the appropriate key.'); jwt.decode is not called and no claims are
\* returned.
C8_Premise ==
    /\ Ran("verify_decode_jwt")
    /\ jwks.status = "ok" /\ jwks.hasKeys
    /\ \A i \in 1..Len(jwks.keys) : jwks.keys[i].hasKid
    /\ Content.form # "bad_header"
    /\ Content.kid # NoKid
    /\ ~KidInKeySet(jwks, Content.kid)

C8_UnknownKidIsKeyNotFound ==
    C8_Premise =>
        /\ IsAuthError(vres, "invalid_header", 400)
        /\ vres.description = "Unable to find the appropriate key."
        /\ "decode" \notin Range(lib)
        /\ payload = NoPayload

C8_Witness == C8_Premise /\ Len(jwks.keys) > 0 /\ Content.sig = "k1"

\* C9: for a validly signed token whose kid names a key of the fetched key
\* set, verify_decode_jwt raises AuthError(token_expired, 401) when exp is in
\* the past and audience and issuer are right, and AuthError(invalid_claims,
\* 401) when the token is not expired and audience or issuer is wrong; no
\* claims are returned in either case.
C9_Premise ==
    /\ Ran("verify_decode_jwt")
    /\ KeySetFetched(jwks)
    /\ ValidlySigned(Content)
    /\ KidInKeySet(jwks, Content.kid)

C9_ExpiredAndInvalidClaims ==
    C9_Premise =>
        /\ (/\ Content.claims.exp < clock
            /\ Content.claims.aud = API_AUDIENCE
            /\ Content.claims.iss = Issuer)
           => (IsAuthError(vres, "token_expired", 401) /\ payload = NoPayload)
        /\ (/\ Content.claims.exp >= clock
            /\ (Content.claims.aud # API_AUDIENCE \/ Content.claims.iss # Issuer))
           => (IsAuthError(vres, "invalid_claims", 401) /\ payload = NoPayload)

C9_Witness ==
    /\ C9_Premise
    /\ Content.claims.exp < clock
    /\ Content.claims.aud = API_AUDIENCE
    /\ Content.claims.iss = Issuer
    /\ IsAuthError(vres, "token_expired", 401)

====
